---- MODULE Spec2Model ----
(***************************************************************************)
(* HR Attrition Dashboard (src/APP.py).                                    *)
(*                                                                         *)
(* The program is a Streamlit script.  The host framework executes the     *)
(* whole script, top to bottom, once when a browser session starts and     *)
(* once more after every widget interaction.  A script execution is one    *)
(* action of this model.  An exception raised by a statement ends the      *)
(* execution: the statements after it are not executed.                    *)
(*                                                                         *)
(* State that outlives one execution: the file on disk, the st.cache_data  *)
(* store of load_data, and the widget values of the session.  The other    *)
(* variables hold what the last execution computed and displayed.          *)
(*                                                                         *)
(* Arithmetic is exact: a mean is the pair (sum, count) and a rounded      *)
(* value is an integer number of units (tenths, hundredths).               *)
(***************************************************************************)
EXTENDS Integers, Sequences, FiniteSets, TLC

VARIABLES
    file,         \* EA.csv on disk: [columns, rows]
    cache,        \* the st.cache_data entry of load_data()
    reads,        \* how many times pd.read_csv ran in this process
    df,           \* line 14
    departments,  \* line 21, the multiselect's value
    genders,      \* line 22, the multiselect's value
    age_range,    \* line 23, the slider's value <<low, high>>
    filtered_df,  \* lines 25-29
    kpi,          \* lines 52-54, the three metric values
    age_bins,     \* line 125
    rendered,     \* the statements of the script that completed, in order
    error         \* the statement that raised, or "none"

vars == <<file, cache, reads, df, departments, genders, age_range,
          filtered_df, kpi, age_bins, rendered, error>>

----------------------------------------------------------------------------
(* Bounds of the model *)

MaxRows == 3
MaxReads == 2

----------------------------------------------------------------------------
(* The data *)

AllColumns ==
    {"Department", "Gender", "Age", "Attrition", "MonthlyIncome", "JobRole",
     "EducationField", "YearsAtCompany", "WorkLifeBalance", "JobSatisfaction",
     "MaritalStatus", "OverTime", "PerformanceRating", "YearsInCurrentRole",
     "TotalWorkingYears", "Education"}

Record(d, g, a, t, m) ==
    [Department |-> d, Gender |-> g, Age |-> a, Attrition |-> t,
     MonthlyIncome |-> m]

\* The employee records the files of the model are made of.
Employees ==
    { Record("Sales", "Male",   30, "Yes",     3),
      Record("Sales", "Female", 50, "No",      4),
      Record("HR",    "Male",   20, "Unknown", 2),
      Record("HR",    "Female", 61, "Yes",     -6) }

Tables == UNION { [1..n -> Employees] : n \in 0..MaxRows }

SampleTable ==
    << Record("Sales", "Male", 30, "Yes", 3),
       Record("HR", "Female", 41, "No", 4) >>

\* Files with the full header, and files whose header lacks one column.
Files ==
    { [columns |-> AllColumns, rows |-> t] : t \in Tables }
    \cup { [columns |-> AllColumns \ {c}, rows |-> SampleTable] : c \in AllColumns }

EmptyFrame == [columns |-> {}, rows |-> << >>]

NoCache == [filled |-> FALSE, value |-> EmptyFrame]

NaN == [nan |-> TRUE, value |-> 0]

Num(v) == [nan |-> FALSE, value |-> v]

NoKpi == [age |-> NaN, income |-> NaN, attrition |-> NaN]

----------------------------------------------------------------------------
(* pandas: the operations the script calls *)

\* pd.read_csv: the rows of the file under a RangeIndex 0..n-1.
read_csv(f) ==
    [columns |-> f.columns,
     rows |-> [i \in 1..Len(f.rows) |->
                 [index |-> i - 1,
                  Department |-> f.rows[i].Department,
                  Gender |-> f.rows[i].Gender,
                  Age |-> f.rows[i].Age,
                  Attrition |-> f.rows[i].Attrition,
                  MonthlyIncome |-> f.rows[i].MonthlyIncome]]]

\* frame[column] as the sequence of its values
Column(rows, c) == [i \in 1..Len(rows) |-> rows[i][c]]

\* Series.unique(), as a set
unique(series) == { series[i] : i \in 1..Len(series) }

isin_AllWhenEmpty(series, values) ==
    [i \in 1..Len(series) |-> values = {} \/ series[i] \in values]

\* Series.isin(values)
isin(series, values) == [i \in 1..Len(series) |-> series[i] \in values]

between_Exclusive(series, left, right) ==
    [i \in 1..Len(series) |-> left < series[i] /\ series[i] < right]

\* Series.between(left, right), inclusive="both"
between(series, left, right) ==
    [i \in 1..Len(series) |-> left <= series[i] /\ series[i] <= right]

\* mask & mask & mask
And3(a, b, c) == [i \in 1..Len(a) |-> a[i] /\ b[i] /\ c[i]]

RECURSIVE Take(_, _, _)
\* the rows at positions i..Len(rows) whose mask entry is true, in order
Take(rows, mask, i) ==
    IF i > Len(rows) THEN << >>
    ELSE IF mask[i] THEN <<rows[i]>> \o Take(rows, mask, i + 1)
    ELSE Take(rows, mask, i + 1)

BoolIndex_SkipFirst(rows, mask) ==
    LET hit == Take(rows, mask, 1)
    IN  IF hit = << >> THEN hit ELSE Tail(hit)

\* frame[mask]: the rows whose mask entry is true, index labels kept
BoolIndex(rows, mask) == Take(rows, mask, 1)

RECURSIVE Sum(_)
Sum(series) == IF series = << >> THEN 0 ELSE Head(series) + Sum(Tail(series))

Abs(x) == IF x < 0 THEN -x ELSE x

\* num/den (den > 0) rounded to an integer, ties to even: round() on a float
RoundHalfEven(num, den) ==
    LET q == num \div den
        r == num - q * den
    IN  IF 2 * r < den THEN q
        ELSE IF 2 * r > den THEN q + 1
        ELSE IF q % 2 = 0 THEN q ELSE q + 1

\* int(x) of the float x = num/den (den > 0): truncation toward zero
int(num, den) == IF num >= 0 THEN num \div den ELSE -((-num) \div den)

\* The edges of line 125
Bins == <<20, 30, 40, 50, 60>>

NoBin == [nan |-> TRUE, left |-> 0, right |-> 0]

\* how many edges lie strictly below x: searchsorted(edges, x, side="left")
EdgesBelow(x) == Cardinality({ k \in 1..Len(Bins) : Bins[k] < x })

EdgesNotAbove(x) == Cardinality({ k \in 1..Len(Bins) : Bins[k] <= x })

CutAt(k) ==
    IF k = 0 \/ k = Len(Bins) THEN NoBin
    ELSE [nan |-> FALSE, left |-> Bins[k], right |-> Bins[k + 1]]

cut_LeftClosed(x) == CutAt(EdgesNotAbove(x))

\* pd.cut(x, bins=Bins) with its defaults right=True, include_lowest=False:
\* the interval (left, right] holding x, NaN when x is in none
cut(x) == CutAt(EdgesBelow(x))

----------------------------------------------------------------------------
(* The script *)

load_data_Uncached(c, f, n) ==
    [df |-> read_csv(f),
     cache |-> [filled |-> TRUE, value |-> read_csv(f)],
     reads |-> IF n < MaxReads THEN n + 1 ELSE n]

\* Lines 9-14.  st.cache_data: the body runs when the store has no entry for
\* load_data(); a later call returns the stored value.  The count of reads
\* stops at MaxReads.
load_data(c, f, n) ==
    IF c.filled
    THEN [df |-> c.value, cache |-> c, reads |-> n]
    ELSE [df |-> read_csv(f),
          cache |-> [filled |-> TRUE, value |-> read_csv(f)],
          reads |-> IF n < MaxReads THEN n + 1 ELSE n]

\* Line 23: the value the slider starts with
DefaultAgeRange == <<30, 50>>

Min(S) == CHOOSE x \in S : \A y \in S : x <= y

Max(S) == CHOOSE x \in S : \A y \in S : x >= y

\* Line 23: the slider runs from int(df['Age'].min()) to int(df['Age'].max());
\* st.slider widens that range to hold the starting value.
SliderBounds(rows) ==
    << Min(unique(Column(rows, "Age")) \cup {DefaultAgeRange[1]}),
       Max(unique(Column(rows, "Age")) \cup {DefaultAgeRange[2]}) >>

\* Lines 25-29
FilterRows(rows, deps, gens, range) ==
    BoolIndex(rows,
              And3(isin(Column(rows, "Department"), deps),
                   isin(Column(rows, "Gender"), gens),
                   between(Column(rows, "Age"), range[1], range[2])))

\* Line 52: round(mean, 1), in tenths of a year
AverageAge(view) ==
    IF view = << >> THEN NaN
    ELSE Num(RoundHalfEven(10 * Sum(Column(view, "Age")), Len(view)))

\* Line 53: int(mean); called on a non-empty view only, since int(NaN) raises
AverageIncome(view) ==
    IF view = << >> THEN NaN
    ELSE Num(int(Sum(Column(view, "MonthlyIncome")), Len(view)))

\* (filtered_df['Attrition'] == 'Yes') as a series of 0 and 1
IsYes(view) == [i \in 1..Len(view) |-> IF view[i].Attrition = "Yes" THEN 1 ELSE 0]

AttritionRate_Truncated(view) ==
    IF view = << >> THEN NaN
    ELSE Num((10000 * Sum(IsYes(view))) \div Len(view))

\* Line 54: round(mean * 100, 2), in hundredths of a percent
AttritionRate(view) ==
    IF view = << >> THEN NaN
    ELSE Num(RoundHalfEven(10000 * Sum(IsYes(view)), Len(view)))

\* Line 125: the bin of every row of the view, under the view's index
AgeBins(view) ==
    [i \in 1..Len(view) |-> [index |-> view[i].index, bin |-> cut(view[i].Age)]]

\* The statements of the script that can raise, in script order, each with
\* the columns it reads.
Script ==
    << [name |-> "Department",     needs |-> {"Department"}],
       [name |-> "Gender",         needs |-> {"Gender"}],
       [name |-> "Age Range",      needs |-> {"Age"}],
       [name |-> "filtered_df",    needs |-> {"Department", "Gender", "Age"}],
       [name |-> "chart1",         needs |-> {"Attrition"}],
       [name |-> "chart2",         needs |-> {"Department", "Attrition"}],
       [name |-> "chart3",         needs |-> {"Gender", "Attrition"}],
       [name |-> "Average Age",    needs |-> {"Age"}],
       [name |-> "Average Income", needs |-> {"MonthlyIncome"}],
       [name |-> "Attrition Rate", needs |-> {"Attrition"}],
       [name |-> "chart5",         needs |-> {"Age"}],
       [name |-> "chart6",         needs |-> {"Attrition"}],
       [name |-> "chart7",         needs |-> {"Attrition", "MonthlyIncome"}],
       [name |-> "chart8",         needs |-> {"JobRole", "Attrition"}],
       [name |-> "chart9",         needs |-> {"EducationField", "Attrition"}],
       [name |-> "chart10",        needs |-> {"YearsAtCompany", "Attrition"}],
       [name |-> "chart11",        needs |-> {"WorkLifeBalance", "Attrition"}],
       [name |-> "chart12",        needs |-> {"Attrition", "JobSatisfaction"}],
       [name |-> "chart13",        needs |-> {"MaritalStatus", "Attrition"}],
       [name |-> "chart14",        needs |-> {"OverTime", "Attrition"}],
       [name |-> "chart15",        needs |-> {"Attrition", "PerformanceRating"}],
       [name |-> "chart16",        needs |-> {"YearsInCurrentRole", "Attrition"}],
       [name |-> "chart17",        needs |-> {"Age", "Attrition"}],
       [name |-> "chart18",        needs |-> {}],
       [name |-> "chart19",        needs |-> {"TotalWorkingYears", "Attrition"}],
       [name |-> "chart20",        needs |-> {"Education", "Attrition"}],
       [name |-> "raw",            needs |-> {}] >>

Names == { Script[i].name : i \in 1..Len(Script) }

\* Whether statement i raises: a column it reads is absent (KeyError,
\* ValueError); line 23 on a table without rows and line 53 on a view without
\* rows, where int() is given NaN (ValueError).
Raises(i, d, view) ==
    \/ ~(Script[i].needs \subseteq d.columns)
    \/ Script[i].name = "Age Range" /\ d.rows = << >>
    \/ Script[i].name = "Average Income" /\ view = << >>

\* The first statement that raises; Len(Script) + 1 when none does.
FirstRaise(d, view) ==
    Min({ i \in 1..Len(Script) : Raises(i, d, view) } \cup {Len(Script) + 1})

Shown(name) == \E i \in 1..Len(rendered) : rendered[i] = name

\* A widget's value in the session: unset in a new session
Unset == [set |-> FALSE, value |-> {}]

UnsetRange == [set |-> FALSE, value |-> DefaultAgeRange]

Held(name, v) == [set |-> Shown(name), value |-> v]

\* One execution of the script, lines 14-150, under the session's widget
\* values wd, wg, wa.
Rerun(wd, wg, wa) ==
    \E loaded \in {load_data(cache, file, reads)} :
    \E deps \in {IF wd.set THEN wd.value
                 ELSE unique(Column(loaded.df.rows, "Department"))} :
    \E gens \in {IF wg.set THEN wg.value
                 ELSE unique(Column(loaded.df.rows, "Gender"))} :
    \E range \in {IF wa.set THEN wa.value ELSE DefaultAgeRange} :
    \E view \in {FilterRows(loaded.df.rows, deps, gens, range)} :
    \E stop \in {FirstRaise(loaded.df, view)} :
    \E ran \in {{ Script[i].name : i \in 1..(stop - 1) }} :
        /\ cache' = loaded.cache
        /\ reads' = loaded.reads
        /\ df' = loaded.df
        /\ departments' = IF "Department" \in ran THEN deps ELSE {}
        /\ genders' = IF "Gender" \in ran THEN gens ELSE {}
        /\ age_range' = IF "Age Range" \in ran THEN range ELSE DefaultAgeRange
        /\ filtered_df' = IF "filtered_df" \in ran THEN view ELSE << >>
        /\ kpi' = [age       |-> IF "Average Age" \in ran
                                 THEN AverageAge(view) ELSE NaN,
                   income    |-> IF "Average Income" \in ran
                                 THEN AverageIncome(view) ELSE NaN,
                   attrition |-> IF "Attrition Rate" \in ran
                                 THEN AttritionRate(view) ELSE NaN]
        /\ age_bins' = IF "chart17" \in ran THEN AgeBins(view) ELSE << >>
        /\ rendered' = [i \in 1..(stop - 1) |-> Script[i].name]
        /\ error' = IF stop > Len(Script) THEN "none" ELSE Script[stop].name
        /\ UNCHANGED file

----------------------------------------------------------------------------
(* The state machine *)

Init ==
    /\ file \in Files
    /\ cache = NoCache
    /\ reads = 0
    /\ df = EmptyFrame
    /\ departments = {}
    /\ genders = {}
    /\ age_range = DefaultAgeRange
    /\ filtered_df = << >>
    /\ kpi = NoKpi
    /\ age_bins = << >>
    /\ rendered = << >>
    /\ error = "none"

\* A browser session starts (or the page is reloaded): the widgets take
\* their default values.
StartSession == Rerun(Unset, Unset, UnsetRange)

\* The user changes the Department multiselect.
SelectDepartments ==
    /\ Shown("Department")
    /\ \E S \in SUBSET unique(Column(df.rows, "Department")) :
         /\ S # departments
         /\ Rerun([set |-> TRUE, value |-> S], Held("Gender", genders),
                  Held("Age Range", age_range))

\* The user changes the Gender multiselect.
SelectGenders ==
    /\ Shown("Gender")
    /\ \E S \in SUBSET unique(Column(df.rows, "Gender")) :
         /\ S # genders
         /\ Rerun(Held("Department", departments), [set |-> TRUE, value |-> S],
                  Held("Age Range", age_range))

\* The positions the user moves the slider's handles to: the ends of the
\* slider and the two starting positions
SliderStops(rows) ==
    { SliderBounds(rows)[1], SliderBounds(rows)[2],
      DefaultAgeRange[1], DefaultAgeRange[2] }

\* The user moves the slider: low <= high, both inside the slider's range.
MoveSlider ==
    /\ Shown("Age Range")
    /\ \E lo \in SliderStops(df.rows), hi \in SliderStops(df.rows) :
         /\ SliderBounds(df.rows)[1] <= lo
         /\ lo <= hi
         /\ hi <= SliderBounds(df.rows)[2]
         /\ <<lo, hi>> # age_range
         /\ Rerun(Held("Department", departments), Held("Gender", genders),
                  [set |-> TRUE, value |-> <<lo, hi>>])

\* Another program empties EA.csv (the header stays).
RewriteFile ==
    /\ file.rows # << >>
    /\ file' = [file EXCEPT !.rows = << >>]
    /\ UNCHANGED <<cache, reads, df, departments, genders, age_range,
                   filtered_df, kpi, age_bins, rendered, error>>

Next ==
    \/ StartSession
    \/ SelectDepartments
    \/ SelectGenders
    \/ MoveSlider
    \/ RewriteFile

Spec == Init /\ [][Next]_vars

----------------------------------------------------------------------------
(* Properties *)

\* The predicate of the filter on one row, under the widget values
Keeps(r) ==
    /\ r.Department \in departments
    /\ r.Gender \in genders
    /\ age_range[1] <= r.Age
    /\ r.Age <= age_range[2]

\* C1: the Filtered View is exactly the rows of the Dataset that satisfy
\* Department in departments, Gender in genders and age_min <= Age <= age_max
\* (both ends inclusive), in Dataset order: every row of the view is a
\* Dataset row that satisfies the three predicates, no satisfying row is
\* left out, and the view has at most as many rows as the Dataset.
C1_FilterExact ==
    Shown("filtered_df") =>
        /\ \A i \in 1..Len(filtered_df) :
             /\ Keeps(filtered_df[i])
             /\ \E j \in 1..Len(df.rows) : df.rows[j] = filtered_df[i]
        /\ \A i, j \in 1..Len(filtered_df) :
             i < j => filtered_df[i].index < filtered_df[j].index
        /\ \A j \in 1..Len(df.rows) :
             Keeps(df.rows[j]) =>
                 \E i \in 1..Len(filtered_df) : filtered_df[i] = df.rows[j]
        /\ Len(filtered_df) <= Len(df.rows)

\* C1 witness: a view of two or more rows that leaves a row out and holds a
\* row whose Age is the lower end of the range.
C1_Witness ==
    /\ Shown("filtered_df")
    /\ Len(filtered_df) >= 2
    /\ Len(filtered_df) < Len(df.rows)
    /\ \E i \in 1..Len(filtered_df) : filtered_df[i].Age = age_range[1]

\* C2: a degenerate selection gives a view without rows and no error: no
\* department selected, no gender selected, only a department or a gender
\* that no row has, or an age range with age_min > age_max.
C2_DegenerateSelections ==
    Shown("Age Range") =>
        /\ error # "filtered_df"
        /\ (Shown("filtered_df") /\ (departments = {} \/ genders = {}))
               => filtered_df = << >>
        /\ \A deps \in {{}, {"Legal"}} :
             FilterRows(df.rows, deps, genders, age_range) = << >>
        /\ \A gens \in {{}, {"Other"}} :
             FilterRows(df.rows, departments, gens, age_range) = << >>
        /\ \A lo \in SliderStops(df.rows), hi \in SliderStops(df.rows) :
             lo > hi =>
                 FilterRows(df.rows, departments, genders, <<lo, hi>>) = << >>

\* C2 witness: the user has deselected every department of a table with
\* rows, a gender is still selected, and the view has no rows.
C2_Witness ==
    /\ Shown("filtered_df")
    /\ df.rows # << >>
    /\ departments = {}
    /\ genders # {}
    /\ filtered_df = << >>

\* C3: when the view has no rows the script still runs to its end: the three
\* metrics, every chart and the raw table are produced and nothing raises.
C3_EmptyViewRenders ==
    (Shown("filtered_df") /\ filtered_df = << >> /\ df.columns = AllColumns) =>
        /\ error = "none"
        /\ \A n \in Names : Shown(n)

\* C4: filtering the view again with the same selection returns the view.
C4_FilterIdempotent ==
    Shown("filtered_df") =>
        FilterRows(filtered_df, departments, genders, age_range) = filtered_df

\* C4 witness: a view with rows that is not the whole table.
C4_Witness ==
    /\ Shown("filtered_df")
    /\ filtered_df # << >>
    /\ Len(filtered_df) < Len(df.rows)

\* The rows of the view whose Attrition is "Yes"
YesRows == { i \in 1..Len(filtered_df) : filtered_df[i].Attrition = "Yes" }

\* C5: on a view with rows the Attrition Rate is the number of rows with
\* Attrition = "Yes" over the number of rows, as a percentage rounded to two
\* decimals: the value shown, in hundredths of a percent, is within half a
\* hundredth of 100 * 100 * yes / rows.
C5_AttritionRate ==
    (Shown("Attrition Rate") /\ filtered_df # << >>) =>
        /\ ~kpi.attrition.nan
        /\ 2 * Abs(kpi.attrition.value * Len(filtered_df)
                   - 10000 * Cardinality(YesRows)) <= Len(filtered_df)

\* C5 witness: a view of three rows, two of them "Yes" and one neither "Yes"
\* nor "No": the rate is 66.67%.
C5_Witness ==
    /\ Shown("Attrition Rate")
    /\ Len(filtered_df) = 3
    /\ Cardinality(YesRows) = 2
    /\ \E i \in 1..Len(filtered_df) : filtered_df[i].Attrition = "Unknown"
    /\ kpi.attrition = Num(6667)

\* C6: on a view with rows the Average Income is the mean of MonthlyIncome
\* rounded to the nearest integer, a fraction of 0.5 or more going up.
C6_IncomeRounded ==
    (Shown("Average Income") /\ filtered_df # << >>) =>
        kpi.income =
            Num((2 * Sum(Column(filtered_df, "MonthlyIncome")) + Len(filtered_df))
                \div (2 * Len(filtered_df)))

\* Whether x lies in the interval (Bins[k], Bins[k+1]]
InBin(x, k) == Bins[k] < x /\ x <= Bins[k + 1]

\* Whether b is the one interval (Bins[k], Bins[k+1]] that holds x
BinOf(x, b) ==
    /\ ~b.nan
    /\ b.left < x
    /\ x <= b.right
    /\ \E k \in 1..(Len(Bins) - 1) : b.left = Bins[k] /\ b.right = Bins[k + 1]
    /\ Cardinality({ k \in 1..(Len(Bins) - 1) : InBin(x, k) }) = 1

\* C7: the bins with edges 20, 30, 40, 50, 60 give every age a with
\* 20 < a <= 60 exactly one of (20,30], (30,40], (40,50], (50,60], the one
\* with left < a <= right; 30, 40 and 50 fall in (20,30], (30,40], (40,50].
C7_AgeBins ==
    /\ \A a \in (Bins[1] + 1)..Bins[Len(Bins)] : BinOf(a, cut(a))
    /\ \A k \in 2..(Len(Bins) - 1) :
         cut(Bins[k]) = [nan |-> FALSE, left |-> Bins[k - 1], right |-> Bins[k]]
    /\ Shown("chart17") =>
         /\ Len(age_bins) = Len(filtered_df)
         /\ \A i \in 1..Len(age_bins) :
              /\ age_bins[i].index = filtered_df[i].index
              /\ (Bins[1] < filtered_df[i].Age /\ filtered_df[i].Age <= Bins[Len(Bins)])
                     => BinOf(filtered_df[i].Age, age_bins[i].bin)

\* C7 witness: chart 17 was drawn for a view with a row aged 30, binned in
\* (20,30], and a row aged 50, binned in (40,50].
C7_Witness ==
    /\ Shown("chart17")
    /\ \E i \in 1..Len(age_bins) :
         /\ filtered_df[i].Age = 30
         /\ age_bins[i].bin = [nan |-> FALSE, left |-> 20, right |-> 30]
    /\ \E i \in 1..Len(age_bins) :
         /\ filtered_df[i].Age = 50
         /\ age_bins[i].bin = [nan |-> FALSE, left |-> 40, right |-> 50]

\* C8: within one process the file is read at most once; once the cache is
\* filled it never changes, no later execution reads the file, and every
\* execution sees the table of the first load.
C8_LoadedOnce ==
    /\ [](reads <= 1 /\ (cache.filled => df = cache.value))
    /\ [][cache.filled => (cache' = cache /\ reads' = reads /\ df' = df)]_vars

\* C8 witness: the file was emptied after the load, the user has changed a
\* selection, and the last execution ran to its end on the table first loaded.
C8_Witness ==
    /\ reads = 1
    /\ file.rows = << >>
    /\ df.rows # << >>
    /\ departments # unique(Column(df.rows, "Department"))
    /\ df = cache.value
    /\ error = "none"

\* The statements that read column c
Readers(c) == { i \in 1..Len(Script) : c \in Script[i].needs }

\* C9: when a column that exactly one chart reads is absent from the table,
\* that chart alone fails: every other statement of the execution, those
\* after the failing chart included, still produces its output.
C9_ChartsIndependent ==
    \A c \in AllColumns :
        (cache.filled /\ df.columns = AllColumns \ {c}
                      /\ Cardinality(Readers(c)) = 1) =>
            \A i \in 1..Len(Script) : i \notin Readers(c) => Shown(Script[i].name)

\* C10: every row of the view is counted in chart 17: whatever range the
\* slider is set to, each row of the view gets one of the bins.
C10_EveryRowBinned ==
    Shown("chart17") =>
        /\ Len(age_bins) = Len(filtered_df)
        /\ \A i \in 1..Len(age_bins) : ~age_bins[i].bin.nan

====
